---- MODULE Spec2Model ----
(***************************************************************************)
(* seqtable: FASTA/FASTQ sequence count table generator.                   *)
(*                                                                         *)
(* A model of src/src/main.rs: the thread-budget resolver, the chunk-size  *)
(* planner, the sequential and the chunked counter, the table builder and  *)
(* the control flow of main / process_file around them.                    *)
(***************************************************************************)
EXTENDS Integers, Sequences, FiniteSets, TLC

VARIABLES
    \* ---- Args (main.rs 21-57)
    threads,          \* args.threads
    args_chunk_size,  \* args.chunk_size
    rpm,              \* args.rpm
    nFiles,           \* args.input.len()
    \* ---- process environment
    envRayon,         \* RAYON_NUM_THREADS: Absent or a string (sequence of characters)
    envParallelSeq,   \* PARALLEL_SEQ is set
    envParallel,      \* PARALLEL: Absent or a string
    total_cores,      \* num_cpus::get()
    \* ---- main
    pc,               \* position in main / process_file / count_sequences
    num_threads,      \* result of calculate_optimal_threads
    poolConfigs,      \* number of successful build_global() calls
    poolThreads,      \* thread count the global pool was built with (0: not built)
    err,              \* the error main returned, "" while none
    fileIdx,          \* index of the input file being processed
    filesOpened,      \* number of successful parse_fastx_file() calls
    \* ---- process_file / count_sequences, per file
    file_size,
    chunk_size,
    stream,           \* raw records the reader has yielded so far for this file
    decodeErr,        \* the reader has reported a decode error on this file
    chunks,
    current_chunk,
    total_records,
    results,          \* stage 2: chunk index -> local map, for the chunks counted so far
    parts,            \* stage 3: the partial maps the reduce still has to combine
    idents,           \* stage 3: identity maps the reduce has created
    counts,           \* the frequency map (sequential: running; chunked: final)
    records,          \* the Table built by prepare_records
    tableBuilt,       \* prepare_records has run for this file
    saved,            \* files for which save_output was invoked
    outFiles          \* files whose output file was created or truncated

argVars  == <<threads, args_chunk_size, rpm, nFiles>>
envVars  == <<envRayon, envParallelSeq, envParallel, total_cores>>
mainVars == <<num_threads, poolConfigs, poolThreads, err, fileIdx, filesOpened>>
readVars == <<stream, decodeErr, chunks, current_chunk, total_records>>
redVars  == <<results, parts, idents>>
outVars  == <<records, tableBuilt, saved, outFiles>>
vars == <<argVars, envVars, pc, mainVars, file_size, chunk_size, readVars,
          redVars, counts, outVars>>

----------------------------------------------------------------------------
(* Bounds of the model *)

MaxRequested == 2     \* args.threads ranges over 0..MaxRequested
MaxCores == 8         \* num_cpus::get() ranges over 1..MaxCores
MaxEnvLen == 2        \* environment values are strings of at most this length
SizeDelta == 2        \* file sizes are taken within SizeDelta of each tier edge
MaxChunk == 2         \* args.chunk_size is at most MaxChunk
MaxRecords == 3       \* the reader yields at most this many records per file
MaxIdents == 1        \* identity maps the reduce creates beyond the first
MaxCount == 2         \* counts of the maps given to the table builder alone
MaxFiles == 2         \* input files on the command line

Max(a, b) == IF a >= b THEN a ELSE b

----------------------------------------------------------------------------
(* Thread-budget resolver *)

Absent == <<"(unset)">>
EnvChars == {"0", "1", "4", "+", "x"}
Digits == {"0", "1", "4"}

RECURSIVE StringsUpTo(_)
StringsUpTo(n) ==
    IF n = 0 THEN {<<>>}
    ELSE LET shorter == StringsUpTo(n - 1)
         IN  shorter \cup {Append(s, c) : s \in {t \in shorter : Len(t) = n - 1}, c \in EnvChars}

EnvValues == {Absent} \cup StringsUpTo(MaxEnvLen)

DigitValue(c) == CASE c = "0" -> 0 [] c = "1" -> 1 [] c = "4" -> 4

StripPlus(s) == IF s # <<>> /\ Head(s) = "+" THEN Tail(s) ELSE s

\* str::parse::<usize> answers Ok: an optional leading '+', then one or more
\* decimal digits.  (Values here stay far below usize::MAX, so the overflow
\* error never arises.)
ParsesUsize(s) ==
    /\ StripPlus(s) # <<>>
    /\ \A i \in DOMAIN StripPlus(s) : StripPlus(s)[i] \in Digits

RECURSIVE ParseDigits(_, _)
ParseDigits(s, acc) ==
    IF s = <<>> THEN acc ELSE ParseDigits(Tail(s), acc * 10 + DigitValue(Head(s)))

\* the value of str::parse::<usize> when it answers Ok
ParseUsize(s) == ParseDigits(StripPlus(s), 0)

parallel_jobs_unmarked(pseq, par) ==
    IF par # Absent /\ ParsesUsize(par) THEN ParseUsize(par) ELSE 1

\* PARALLEL_SEQ set, and PARALLEL set and parsed; 1 otherwise
parallel_jobs(pseq, par) ==
    IF pseq
    THEN IF par # Absent /\ ParsesUsize(par) THEN ParseUsize(par) ELSE 1
    ELSE 1

threads_per_job_unclamped(cores, jobs) == cores \div jobs

threads_per_job(cores, jobs) == Max(cores \div jobs, 1)

calculate_optimal_threads(requested, rayon, pseq, par, cores) ==
    IF requested > 0 THEN requested
    ELSE IF rayon # Absent /\ ParsesUsize(rayon) THEN ParseUsize(rayon)
    ELSE IF parallel_jobs(pseq, par) > 1 THEN threads_per_job(cores, parallel_jobs(pseq, par))
    ELSE cores

----------------------------------------------------------------------------
(* Chunk-size planner *)

BytesPerRecord == 100
MinEstimate == 100
Tier1Max == 10000
Tier2Max == 100000
Tier3Max == 1000000
Tier4Max == 10000000
SmallChunk == 10000
MediumChunk == 25000
LargeChunk == 50000
HugeChunk == 100000

estimated_records(size) == Max(size \div BytesPerRecord, MinEstimate)

chunk_tier_exclusive(e) ==
    IF e < Tier1Max THEN 0
    ELSE IF e < Tier2Max THEN SmallChunk
    ELSE IF e < Tier3Max THEN MediumChunk
    ELSE IF e < Tier4Max THEN LargeChunk
    ELSE HugeChunk

chunk_tier(e) ==
    IF e >= 0 /\ e <= Tier1Max THEN 0
    ELSE IF e >= Tier1Max + 1 /\ e <= Tier2Max THEN SmallChunk
    ELSE IF e >= Tier2Max + 1 /\ e <= Tier3Max THEN MediumChunk
    ELSE IF e >= Tier3Max + 1 /\ e <= Tier4Max THEN LargeChunk
    ELSE HugeChunk

calculate_chunk_size(size, requested) ==
    IF requested > 0 THEN requested ELSE chunk_tier(estimated_records(size))

----------------------------------------------------------------------------
(* Frequency maps: functions from a finite set of sequences to counts *)

RawSeqs == {"AAA", "CCG", "<FF>"}          \* record.seq() byte strings
InvalidUtf8 == {"<FF>"}

\* String::from_utf8_lossy: invalid bytes become U+FFFD
from_utf8_lossy(raw) == IF raw \in InvalidUtf8 THEN "<U+FFFD>" ELSE raw

SeqStrings == {from_utf8_lossy(r) : r \in RawSeqs}

EmptyMap == [k \in {} |-> 0]

entry_add_from_one(m, seq, n) ==
    LET old == IF seq \in DOMAIN m THEN m[seq] ELSE 1
    IN  [k \in DOMAIN m \cup {seq} |-> IF k = seq THEN old + n ELSE m[k]]

\* *m.entry(seq).or_insert(0) += n
entry_add(m, seq, n) ==
    LET old == IF seq \in DOMAIN m THEN m[seq] ELSE 0
    IN  [k \in DOMAIN m \cup {seq} |-> IF k = seq THEN old + n ELSE m[k]]

RECURSIVE count_chunk(_, _)
\* the closure of stage 2, and the loop body of the sequential counter
count_chunk(seqs, local_counts) ==
    IF seqs = <<>> THEN local_counts
    ELSE count_chunk(Tail(seqs), entry_add(local_counts, Head(seqs), 1))

merge_keep_first(acc, map) ==
    [k \in DOMAIN acc \cup DOMAIN map |-> IF k \in DOMAIN acc THEN acc[k] ELSE map[k]]

merge_overwrite(acc, map) ==
    [k \in DOMAIN acc \cup DOMAIN map |-> IF k \in DOMAIN map THEN map[k] ELSE acc[k]]

\* the reduce operator of stage 3: every entry of map is added into acc
merge(acc, map) ==
    [k \in DOMAIN acc \cup DOMAIN map |->
        (IF k \in DOMAIN acc THEN acc[k] ELSE 0) + (IF k \in DOMAIN map THEN map[k] ELSE 0)]

RECURSIVE Lossy(_)
Lossy(raws) == IF raws = <<>> THEN <<>> ELSE <<from_utf8_lossy(Head(raws))>> \o Lossy(Tail(raws))

\* what count_sequences_sequential returns as its map for a stream read without error
count_sequences_sequential(raws) == count_chunk(Lossy(raws), EmptyMap)

RECURSIVE SumOver(_, _)
SumOver(m, keys) ==
    IF keys = {} THEN 0
    ELSE LET k == CHOOSE x \in keys : TRUE IN m[k] + SumOver(m, keys \ {k})

SumCounts(m) == SumOver(m, DOMAIN m)

----------------------------------------------------------------------------
(* Table builder *)

NoRpm == <<>>

\* (count as f64 / total_reads as f64) * 1_000_000.0, kept as the exact ratio
rpm_value(count, total_reads) == <<count * 1000000, total_reads>>

make_record(seq, count, total_reads, include_rpm) ==
    [sequence |-> seq, count |-> count,
     rpm |-> IF include_rpm THEN rpm_value(count, total_reads) ELSE NoRpm]

sorts_before_ascending(a, b) == a.count < b.count

\* the comparator b.count.cmp(&a.count) answers Less: a goes before b
sorts_before(a, b) == b.count < a.count

RECURSIVE insert_row(_, _)
insert_row(r, sorted) ==
    IF sorted = <<>> THEN <<r>>
    ELSE IF sorts_before(r, Head(sorted)) THEN <<r>> \o sorted
    ELSE <<Head(sorted)>> \o insert_row(r, Tail(sorted))

RECURSIVE sort_rows(_, _)
sort_rows(rows, sorted) ==
    IF rows = <<>> THEN sorted ELSE sort_rows(Tail(rows), insert_row(Head(rows), sorted))

\* the orders in which the hash map's iterator can yield its keys
IterOrders(m) ==
    {o \in [1..Cardinality(DOMAIN m) -> DOMAIN m] :
        \A i, j \in DOMAIN o : i # j => o[i] # o[j]}

\* every table prepare_records can return: the unstable sort leaves the order
\* among equal counts open, as does the map's iteration order
prepare_records(m, total_reads, include_rpm) ==
    {sort_rows([i \in DOMAIN o |-> make_record(o[i], m[o[i]], total_reads, include_rpm)], <<>>) :
        o \in IterOrders(m)}

----------------------------------------------------------------------------
(* main: thread pool, output directory *)

PerFileInit ==
    /\ file_size = 0 /\ chunk_size = 0
    /\ stream = <<>> /\ decodeErr = FALSE
    /\ chunks = <<>> /\ current_chunk = <<>> /\ total_records = 0
    /\ results = <<>> /\ parts = <<>> /\ idents = 0
    /\ counts = EmptyMap
    /\ records = <<>> /\ tableBuilt = FALSE

\* the locals of process_file and count_sequences are dropped when it returns
PerFileReset ==
    /\ file_size' = 0 /\ chunk_size' = 0
    /\ stream' = <<>> /\ decodeErr' = FALSE
    /\ chunks' = <<>> /\ current_chunk' = <<>> /\ total_records' = 0
    /\ results' = <<>> /\ parts' = <<>> /\ idents' = 0
    /\ counts' = EmptyMap
    /\ records' = <<>> /\ tableBuilt' = FALSE

Fail(why) ==
    /\ pc' = "failed"
    /\ err' = why

ResolveThreads ==
    /\ pc = "main_start"
    /\ num_threads' = calculate_optimal_threads(threads, envRayon, envParallelSeq,
                                                envParallel, total_cores)
    /\ pc' = "pool"
    /\ UNCHANGED <<argVars, envVars, poolConfigs, poolThreads, err, fileIdx, filesOpened,
                   file_size, chunk_size, readVars, redVars, counts, outVars>>

builds_pool_above_one(n) == n > 1

\* the guard of the build_global call
builds_pool(n) == n > 0

BuildPool ==
    /\ pc = "pool"
    /\ builds_pool(num_threads)
    /\ \/ /\ poolConfigs' = poolConfigs + 1
          /\ poolThreads' = num_threads
          /\ pc' = "mkdir"
          /\ err' = err
       \/ /\ Fail("Failed to initialize thread pool")
          /\ UNCHANGED <<poolConfigs, poolThreads>>
    /\ UNCHANGED <<argVars, envVars, num_threads, fileIdx, filesOpened,
                   file_size, chunk_size, readVars, redVars, counts, outVars>>

SkipPool ==
    /\ pc = "pool"
    /\ ~builds_pool(num_threads)
    /\ pc' = "mkdir"
    /\ UNCHANGED <<argVars, envVars, mainVars,
                   file_size, chunk_size, readVars, redVars, counts, outVars>>

CreateOutputDir ==
    /\ pc = "mkdir"
    /\ \/ /\ pc' = "file_meta"
          /\ fileIdx' = 1
          /\ err' = err
       \/ /\ Fail("Failed to create output directory")
          /\ fileIdx' = fileIdx
    /\ UNCHANGED <<argVars, envVars, num_threads, poolConfigs, poolThreads, filesOpened,
                   file_size, chunk_size, readVars, redVars, counts, outVars>>

----------------------------------------------------------------------------
(* process_file: file size, chunk size *)

TierEdges == {0, 50, 10000, 1000000, 1000100, 2000000, 10000100, 100000100, 1000000100}

FileSizes == {s \in UNION {(e - SizeDelta)..(e + SizeDelta) : e \in TierEdges} : s >= 0}

MainFileSizes == {50, 2000000}

StatFile ==
    /\ pc = "file_meta"
    /\ \/ /\ \E size \in MainFileSizes : file_size' = size
          /\ pc' = "plan"
          /\ err' = err
       \/ /\ Fail("metadata")
          /\ file_size' = file_size
    /\ UNCHANGED <<argVars, envVars, num_threads, poolConfigs, poolThreads, fileIdx,
                   filesOpened, chunk_size, readVars, redVars, counts, outVars>>

PlanChunk ==
    /\ pc = "plan"
    /\ chunk_size' = calculate_chunk_size(file_size, args_chunk_size)
    /\ pc' = "count_open"
    /\ UNCHANGED <<argVars, envVars, mainVars, file_size, readVars, redVars, counts, outVars>>

----------------------------------------------------------------------------
(* count_sequences and count_sequences_sequential *)

OpenReader ==
    /\ pc = "count_open"
    /\ \/ /\ filesOpened' = filesOpened + 1
          /\ pc' = IF chunk_size = 0 THEN "seq_open" ELSE "count_meta"
          /\ err' = err
       \/ /\ Fail("Failed to open file")
          /\ filesOpened' = filesOpened
    /\ UNCHANGED <<argVars, envVars, num_threads, poolConfigs, poolThreads, fileIdx,
                   file_size, chunk_size, readVars, redVars, counts, outVars>>

SeqOpenReader ==
    /\ pc = "seq_open"
    /\ \/ /\ filesOpened' = filesOpened + 1
          /\ pc' = "seq_read"
          /\ err' = err
       \/ /\ Fail("Failed to open file")
          /\ filesOpened' = filesOpened
    /\ UNCHANGED <<argVars, envVars, num_threads, poolConfigs, poolThreads, fileIdx,
                   file_size, chunk_size, readVars, redVars, counts, outVars>>

after_decode_error_skip(loop) == loop

\* record.context("Failed to read record")? leaves the function
after_decode_error(loop) == "failed"

DecodeError(loop) ==
    /\ decodeErr' = TRUE
    /\ pc' = after_decode_error(loop)
    /\ err' = IF after_decode_error(loop) = "failed" THEN "Failed to read record" ELSE err

\* (total_records is a u64; it stays far below 2^64 in any run)
SeqRead ==
    /\ pc = "seq_read"
    /\ \/ /\ Len(stream) < MaxRecords
          /\ \E raw \in RawSeqs :
                /\ stream' = Append(stream, raw)
                /\ counts' = entry_add(counts, from_utf8_lossy(raw), 1)
          /\ total_records' = total_records + 1
          /\ UNCHANGED <<pc, err, decodeErr>>
       \/ /\ DecodeError("seq_read")
          /\ UNCHANGED <<stream, counts, total_records>>
       \/ /\ pc' = "counted"
          /\ UNCHANGED <<err, decodeErr, stream, counts, total_records>>
    /\ UNCHANGED <<argVars, envVars, num_threads, poolConfigs, poolThreads, fileIdx,
                   filesOpened, file_size, chunk_size, chunks, current_chunk, redVars, outVars>>

CountMeta ==
    /\ pc = "count_meta"
    /\ \/ /\ pc' = "read"
          /\ err' = err
       \/ Fail("metadata")
    /\ UNCHANGED <<argVars, envVars, num_threads, poolConfigs, poolThreads, fileIdx,
                   filesOpened, file_size, chunk_size, readVars, redVars, counts, outVars>>

chunk_full_strict(len, size) == len > size

\* current_chunk.len() >= chunk_size
chunk_full(len, size) == len >= size

ChunkRead ==
    /\ pc = "read"
    /\ \/ /\ Len(stream) < MaxRecords
          /\ \E raw \in RawSeqs :
                LET pushed == Append(current_chunk, from_utf8_lossy(raw))
                IN  /\ stream' = Append(stream, raw)
                    /\ IF chunk_full(Len(pushed), chunk_size)
                       THEN /\ chunks' = Append(chunks, pushed)
                            /\ current_chunk' = <<>>
                       ELSE /\ chunks' = chunks
                            /\ current_chunk' = pushed
          /\ total_records' = total_records + 1
          /\ UNCHANGED <<pc, err, decodeErr>>
       \/ /\ DecodeError("read")
          /\ UNCHANGED <<stream, chunks, current_chunk, total_records>>
       \/ /\ chunks' = IF current_chunk # <<>> THEN Append(chunks, current_chunk) ELSE chunks
          /\ current_chunk' = <<>>
          /\ pc' = "stage2"
          /\ UNCHANGED <<err, decodeErr, stream, total_records>>
    /\ UNCHANGED <<argVars, envVars, num_threads, poolConfigs, poolThreads, fileIdx,
                   filesOpened, file_size, chunk_size, redVars, counts, outVars>>

\* stage 2: the chunks are counted independently, in any order
CountChunk ==
    /\ pc = "stage2"
    /\ \E i \in (1..Len(chunks)) \ DOMAIN results :
          results' = [j \in DOMAIN results \cup {i} |->
                         IF j = i THEN count_chunk(chunks[i], EmptyMap) ELSE results[j]]
    /\ UNCHANGED <<argVars, envVars, pc, mainVars, file_size, chunk_size, readVars,
                   parts, idents, counts, outVars>>

\* .collect(): every chunk has been counted
Collect ==
    /\ pc = "stage2"
    /\ DOMAIN results = 1..Len(chunks)
    /\ parts' = [i \in 1..Len(chunks) |-> results[i]]
    /\ pc' = "stage3"
    /\ UNCHANGED <<argVars, envVars, mainVars, file_size, chunk_size, readVars,
                   results, idents, counts, outVars>>

InsertAt(s, i, x) == SubSeq(s, 1, i - 1) \o <<x>> \o SubSeq(s, i, Len(s))

\* stage 3: the reduce starts a fold of some segment from AHashMap::new()
ReduceIdentity ==
    /\ pc = "stage3"
    /\ idents < 1 + MaxIdents
    /\ \E i \in 1..(Len(parts) + 1) : parts' = InsertAt(parts, i, EmptyMap)
    /\ idents' = idents + 1
    /\ UNCHANGED <<argVars, envVars, pc, mainVars, file_size, chunk_size, readVars,
                   results, counts, outVars>>

\* stage 3: the reduce combines two neighbouring partial results
ReduceCombine ==
    /\ pc = "stage3"
    /\ \E i \in 1..(Len(parts) - 1) :
          parts' = SubSeq(parts, 1, i - 1) \o <<merge(parts[i], parts[i + 1])>>
                   \o SubSeq(parts, i + 2, Len(parts))
    /\ UNCHANGED <<argVars, envVars, pc, mainVars, file_size, chunk_size, readVars,
                   results, idents, counts, outVars>>

ReduceDone ==
    /\ pc = "stage3"
    /\ idents >= 1
    /\ Len(parts) = 1
    /\ counts' = parts[1]
    /\ pc' = "counted"
    /\ UNCHANGED <<argVars, envVars, mainVars, file_size, chunk_size, readVars,
                   redVars, outVars>>

----------------------------------------------------------------------------
(* process_file: table and output *)

BuildTable ==
    /\ pc = "counted"
    /\ records' \in prepare_records(counts, total_records, rpm)
    /\ tableBuilt' = TRUE
    /\ pc' = "save"
    /\ UNCHANGED <<argVars, envVars, mainVars, file_size, chunk_size, readVars,
                   redVars, counts, saved, outFiles>>

SaveOutput ==
    /\ pc = "save"
    /\ saved' = saved \cup {fileIdx}
    /\ \/ /\ outFiles' = outFiles \cup {fileIdx}
          /\ err' = err
          /\ IF fileIdx < nFiles
             THEN /\ fileIdx' = fileIdx + 1
                  /\ pc' = "file_meta"
             ELSE /\ fileIdx' = fileIdx
                  /\ pc' = "done"
          /\ PerFileReset
       \/ /\ outFiles' \in {outFiles, outFiles \cup {fileIdx}}
          /\ Fail("Failed to write output")
          /\ UNCHANGED <<fileIdx, file_size, chunk_size, readVars, redVars, counts,
                         records, tableBuilt>>
    /\ UNCHANGED <<argVars, envVars, num_threads, poolConfigs, poolThreads, filesOpened>>

----------------------------------------------------------------------------
(* Specifications *)

NoEnv == envRayon = Absent /\ envParallelSeq = FALSE /\ envParallel = Absent

MainIdle ==
    /\ num_threads = 0 /\ poolConfigs = 0 /\ poolThreads = 0
    /\ err = "" /\ fileIdx = 0 /\ filesOpened = 0
    /\ saved = {} /\ outFiles = {}

\* inside process_file for the first file, the pool built with all cores
MainInFile ==
    /\ threads = 0 /\ NoEnv /\ total_cores = MaxCores
    /\ num_threads = MaxCores /\ poolConfigs = 1 /\ poolThreads = MaxCores
    /\ err = "" /\ fileIdx = 1 /\ nFiles = 1 /\ filesOpened = 0
    /\ saved = {} /\ outFiles = {}

\* the whole program: main from its first statement.  The chunk size argument
\* is auto or the largest, and the environment holds at most the override, so
\* that both counting paths and both outcomes of the pool guard occur.
Init ==
    /\ threads \in 0..MaxRequested
    /\ args_chunk_size \in {0, MaxChunk}
    /\ rpm \in BOOLEAN
    /\ nFiles \in 1..MaxFiles
    /\ envRayon \in {Absent, <<"0">>}
    /\ envParallelSeq = FALSE
    /\ envParallel = Absent
    /\ total_cores = MaxCores
    /\ pc = "main_start"
    /\ MainIdle
    /\ PerFileInit

Next ==
    \/ ResolveThreads \/ BuildPool \/ SkipPool \/ CreateOutputDir
    \/ StatFile \/ PlanChunk
    \/ OpenReader \/ SeqOpenReader \/ SeqRead \/ CountMeta \/ ChunkRead
    \/ CountChunk \/ Collect \/ ReduceIdentity \/ ReduceCombine \/ ReduceDone
    \/ BuildTable \/ SaveOutput

Spec == Init /\ [][Next]_vars

\* the thread-budget resolver over every environment
InitThreads ==
    /\ threads \in 0..MaxRequested
    /\ envRayon \in EnvValues
    /\ envParallelSeq \in BOOLEAN
    /\ envParallel \in EnvValues
    /\ total_cores \in 1..MaxCores
    /\ args_chunk_size = 0 /\ rpm = FALSE /\ nFiles = 1
    /\ pc = "main_start"
    /\ MainIdle
    /\ PerFileInit

SpecThreads == InitThreads /\ [][ResolveThreads]_vars

\* the chunk-size planner over the file sizes around every tier edge
InitChunk ==
    /\ args_chunk_size \in 0..MaxChunk
    /\ rpm = FALSE
    /\ MainInFile
    /\ pc = "plan"
    /\ file_size \in FileSizes
    /\ chunk_size = 0
    /\ stream = <<>> /\ decodeErr = FALSE
    /\ chunks = <<>> /\ current_chunk = <<>> /\ total_records = 0
    /\ results = <<>> /\ parts = <<>> /\ idents = 0
    /\ counts = EmptyMap
    /\ records = <<>> /\ tableBuilt = FALSE

SpecChunk == InitChunk /\ [][PlanChunk]_vars

\* count_sequences on one file, for every chunk size
InitCount ==
    /\ args_chunk_size \in 0..MaxChunk
    /\ rpm = FALSE
    /\ MainInFile
    /\ pc = "count_open"
    /\ file_size \in MainFileSizes
    /\ chunk_size = calculate_chunk_size(file_size, args_chunk_size)
    /\ stream = <<>> /\ decodeErr = FALSE
    /\ chunks = <<>> /\ current_chunk = <<>> /\ total_records = 0
    /\ results = <<>> /\ parts = <<>> /\ idents = 0
    /\ counts = EmptyMap
    /\ records = <<>> /\ tableBuilt = FALSE

NextCount ==
    \/ OpenReader \/ SeqOpenReader \/ SeqRead \/ CountMeta \/ ChunkRead
    \/ CountChunk \/ Collect \/ ReduceIdentity \/ ReduceCombine \/ ReduceDone

SpecCount == InitCount /\ [][NextCount]_vars

\* the table builder over every frequency map of bounded counts
FrequencyMaps ==
    UNION {[keys -> 1..MaxCount] : keys \in SUBSET SeqStrings}

InitTable ==
    /\ args_chunk_size = 0
    /\ rpm \in BOOLEAN
    /\ MainInFile
    /\ pc = "counted"
    /\ file_size = 50
    /\ chunk_size = 0
    /\ stream = <<>> /\ decodeErr = FALSE
    /\ chunks = <<>> /\ current_chunk = <<>>
    /\ results = <<>> /\ parts = <<>> /\ idents = 0
    /\ counts \in FrequencyMaps
    /\ total_records = SumCounts(counts)
    /\ records = <<>> /\ tableBuilt = FALSE

SpecTable == InitTable /\ [][BuildTable]_vars

----------------------------------------------------------------------------
(* Properties of count_sequences, checked under SpecCount *)

Returned == pc = "counted"

\* C1 (conservation): when count_sequences returns, on the sequential path
\* or with any chunk size, under any order of counting and merging, the counts
\* of the returned map add up to the returned total, and the total is the
\* number of records the reader yielded.
C1_Conservation ==
    Returned => /\ SumCounts(counts) = total_records
                /\ total_records = Len(stream)

\* a repeated sequence lands in different chunks and is merged
C1_Witness ==
    /\ Returned /\ chunk_size = 1 /\ Len(chunks) = 3
    /\ stream[1] = stream[3]
    /\ SumCounts(counts) = 3

\* C2 (chunk-size invariance): the map and total the chunked aggregator returns
\* are those the sequential counter produces on the same stream; the
\* sequential path itself returns just that.
C2_ChunkSizeInvariance ==
    Returned => /\ counts = count_sequences_sequential(stream)
                /\ total_records = Len(stream)

C2_Witness ==
    /\ Returned /\ chunk_size = 2 /\ Len(chunks) = 2
    /\ stream[1] = stream[3] /\ stream[1] # stream[2]
    /\ counts[from_utf8_lossy(stream[1])] = 2

RECURSIVE MergeAll(_, _)
MergeAll(maps, acc) ==
    IF maps = <<>> THEN acc ELSE MergeAll(Tail(maps), merge(acc, Head(maps)))

ResultsInOrder == [i \in 1..Len(chunks) |-> results[i]]

\* C3 (merge-order independence): whatever neighbours the reduce combines and
\* wherever it starts from the empty map, the partial maps always merge to the
\* same map, which is the one returned; merging with the empty map changes
\* nothing, and merging two partial maps gives the same map in either order.
C3_MergeOrderIndependence ==
    /\ pc = "stage3" =>
          /\ MergeAll(parts, EmptyMap) = MergeAll(ResultsInOrder, EmptyMap)
          /\ \A i \in DOMAIN parts :
                /\ merge(EmptyMap, parts[i]) = parts[i]
                /\ merge(parts[i], EmptyMap) = parts[i]
                /\ \A j \in DOMAIN parts : merge(parts[i], parts[j]) = merge(parts[j], parts[i])
    /\ (Returned /\ chunk_size > 0) => counts = MergeAll(ResultsInOrder, EmptyMap)

\* three local maps sharing a key, reduced with two identities
C3_Witness ==
    /\ Returned /\ Len(chunks) = 3 /\ idents = 2
    /\ results[1] = results[3] /\ results[1] # results[2]

RECURSIVE Concat(_)
Concat(ss) == IF ss = <<>> THEN <<>> ELSE Head(ss) \o Concat(Tail(ss))

RECURSIVE SumLen(_)
SumLen(ss) == IF ss = <<>> THEN 0 ELSE Len(Head(ss)) + SumLen(Tail(ss))

\* the least k with k * c >= n
CeilDiv(n, c) == CHOOSE k \in 0..n : k * c >= n /\ (k = 0 \/ (k - 1) * c < n)

\* C10 (partition shape): after stage 1 of a read without error with chunk
\* size c >= 1 and n records, there are ceil(n / c) chunks, all of c sequences
\* but the last, which has 1..c; the chunks in order are the stream in arrival
\* order, and the tracked total is the sum of the chunk lengths.  While
\* reading, every pushed chunk is full and the open one is not.
C10_PartitionShape ==
    /\ (pc \in {"stage2", "stage3", "counted"} /\ chunk_size >= 1) =>
          /\ Len(chunks) = CeilDiv(Len(stream), chunk_size)
          /\ \A i \in 1..(Len(chunks) - 1) : Len(chunks[i]) = chunk_size
          /\ chunks # <<>> => Len(chunks[Len(chunks)]) \in 1..chunk_size
          /\ Concat(chunks) = Lossy(stream)
          /\ total_records = SumLen(chunks)
    /\ pc = "read" =>
          /\ \A i \in DOMAIN chunks : Len(chunks[i]) = chunk_size
          /\ Len(current_chunk) < chunk_size
          /\ Concat(chunks) \o current_chunk = Lossy(stream)
          /\ total_records = SumLen(chunks) + Len(current_chunk)

\* a short last chunk
C10_Witness ==
    /\ pc = "stage2" /\ chunk_size = 2 /\ Len(stream) = 3
    /\ Len(chunks) = 2 /\ Len(chunks[2]) = 1

----------------------------------------------------------------------------
(* Properties of the thread-budget resolver, checked under SpecThreads *)

Resolved == pc = "pool"

OverrideParses == envRayon # Absent /\ ParsesUsize(envRayon)

\* the sibling count, when the marker is set and the count parses; else 0
SiblingCount ==
    IF envParallelSeq /\ envParallel # Absent /\ ParsesUsize(envParallel)
    THEN ParseUsize(envParallel) ELSE 0

\* floor(a / b) for b > 0
Floor(a, b) == CHOOSE q \in 0..a : q * b <= a /\ a < (q + 1) * b

\* C4 as stated: the resolver returns a value >= 1 for every combination of
\* requested count, override variable, sibling variables and core count.
C4_AlwaysPositive ==
    Resolved => num_threads >= 1

\* C4, amended: the resolver returns a value >= 1 for every combination of
\* inputs except a requested count of 0 with an override variable that parses
\* to 0, for which it returns 0.
C4_PositiveUnlessOverrideZero ==
    Resolved => IF threads = 0 /\ OverrideParses /\ ParseUsize(envRayon) = 0
                THEN num_threads = 0
                ELSE num_threads >= 1

\* more sibling jobs than cores: the share is clamped to 1
C4_Witness ==
    /\ Resolved /\ threads = 0 /\ ~OverrideParses
    /\ SiblingCount > total_cores
    /\ num_threads = 1

\* C5 (priority order): a positive requested count is returned verbatim;
\* otherwise an override that parses is returned; otherwise, with the sibling
\* marker set and a sibling count n > 1, the result is max(floor(cores / n), 1);
\* otherwise it is the number of cores.  8 cores and 4 sibling jobs give 2.
C5_PriorityOrder ==
    Resolved =>
       /\ IF threads > 0 THEN num_threads = threads
          ELSE IF OverrideParses THEN num_threads = ParseUsize(envRayon)
          ELSE IF SiblingCount > 1
               THEN num_threads = Max(Floor(total_cores, SiblingCount), 1)
               ELSE num_threads = total_cores
       /\ (threads = 0 /\ ~OverrideParses /\ SiblingCount = 4 /\ total_cores = 8)
             => num_threads = 2
       /\ (threads = 0 /\ ~OverrideParses /\ SiblingCount > total_cores)
             => num_threads = 1

C5_Witness ==
    /\ Resolved /\ threads = 0 /\ envRayon = <<"x">>
    /\ envParallelSeq /\ envParallel = <<"4">> /\ total_cores = 8
    /\ num_threads = 2

----------------------------------------------------------------------------
(* Property of the chunk-size planner, checked under SpecChunk *)

Planned == pc = "count_open"

\* C6 (tiers): a nonzero requested chunk size is returned unchanged; in auto
\* mode, with e = max(floor(byte_size / 100), 100), the result is 0 up to
\* 10,000, then 10,000 up to 100,000, 25,000 up to 1,000,000, 50,000 up to
\* 10,000,000 and 100,000 beyond; so 0 is returned exactly in auto mode for
\* byte_size < 1,000,100; 50 bytes give 0 and 2,000,000 bytes give 10,000.
C6_ChunkTiers ==
    Planned =>
       LET e == Max(file_size \div 100, 100)
       IN  /\ args_chunk_size # 0 => chunk_size = args_chunk_size
           /\ args_chunk_size = 0 =>
                 /\ e <= 10000 => chunk_size = 0
                 /\ (10001 <= e /\ e <= 100000) => chunk_size = 10000
                 /\ (100001 <= e /\ e <= 1000000) => chunk_size = 25000
                 /\ (1000001 <= e /\ e <= 10000000) => chunk_size = 50000
                 /\ e > 10000000 => chunk_size = 100000
           /\ chunk_size = 0 <=> (args_chunk_size = 0 /\ file_size < 1000100)
           /\ (args_chunk_size = 0 /\ file_size = 50) => chunk_size = 0
           /\ (args_chunk_size = 0 /\ file_size = 2000000) => chunk_size = 10000

\* the last byte size of the sequential tier
C6_Witness ==
    /\ Planned /\ args_chunk_size = 0
    /\ file_size = 1000099 /\ chunk_size = 0

----------------------------------------------------------------------------
(* Property of the table builder, checked under SpecTable *)

\* C7 (table): prepare_records returns one row per distinct sequence of the
\* map, carrying that sequence's count, in an order where no row has a
\* smaller count than the row after it, with or without the abundance column.
C7_SortedAndComplete ==
    tableBuilt =>
       /\ Len(records) = Cardinality(DOMAIN counts)
       /\ \A k \in DOMAIN counts :
             \E i \in DOMAIN records :
                /\ records[i].sequence = k
                /\ records[i].count = counts[k]
                /\ \A j \in DOMAIN records : records[j].sequence = k => j = i
       /\ \A i \in DOMAIN records : records[i].sequence \in DOMAIN counts
       /\ \A i \in 1..(Len(records) - 1) : records[i].count >= records[i + 1].count
       /\ \A i \in DOMAIN records : (records[i].rpm # NoRpm) <=> rpm

C7_Witness ==
    /\ tableBuilt /\ rpm /\ Len(records) = 3
    /\ records[1].count > records[2].count
    /\ records[2].count = records[3].count

----------------------------------------------------------------------------
(* Properties of main and process_file, checked under Spec *)

\* C8 (all-or-nothing on a decode error): once the reader has reported a
\* decode error on a file, on either path, process_file has ended in an error
\* for it: no chunk was counted, no partial map merged, no table built, the
\* serializer not invoked and no output file created or truncated for it.
C8_NoPartialOutput ==
    decodeErr =>
       /\ pc = "failed" /\ err = "Failed to read record"
       /\ results = <<>> /\ parts = <<>>
       /\ ~tableBuilt /\ records = <<>>
       /\ fileIdx \notin saved
       /\ fileIdx \notin outFiles

\* the second file fails in stage 1 after the first was written
C8_Witness ==
    /\ decodeErr /\ pc = "failed" /\ fileIdx = 2
    /\ chunk_size >= 1 /\ chunks # <<>> /\ current_chunk # <<>>
    /\ outFiles = {1}

Processing == fileIdx >= 1 \/ filesOpened > 0 \/ pc \in {"stage2", "stage3"}

PoolFailed == err = "Failed to initialize thread pool"

\* C9 as stated: in every run the pool is configured with the resolved budget
\* exactly once, before the first file is opened or any parallel stage runs;
\* no file is processed after a pool failure; the pool is never reconfigured.
C9_ConfiguredOnceBeforeFiles ==
    /\ poolConfigs <= 1
    /\ Processing => (poolConfigs = 1 /\ poolThreads = num_threads)
    /\ PoolFailed => (pc = "failed" /\ fileIdx = 0 /\ filesOpened = 0 /\ saved = {})

\* C9, amended: when the resolved budget is positive, main configures the pool
\* with it exactly once, before the first file is opened or any parallel stage
\* runs; when it is 0, main never configures the pool; in both cases no file
\* is processed after a pool failure and main never configures the pool again.
C9_ConfiguredOnceWhenPositive ==
    /\ poolConfigs <= 1
    /\ Processing => IF num_threads > 0
                     THEN poolConfigs = 1 /\ poolThreads = num_threads
                     ELSE poolConfigs = 0 /\ poolThreads = 0
    /\ PoolFailed => (pc = "failed" /\ fileIdx = 0 /\ filesOpened = 0 /\ saved = {})

\* the second file is being read with the pool built once with one thread
C9_Witness ==
    /\ fileIdx = 2 /\ pc = "stage2" /\ filesOpened >= 2
    /\ num_threads = 1 /\ poolConfigs = 1 /\ poolThreads = 1

====
